---- MODULE Spec2Model ----
(***************************************************************************)
(* State-machine model of the CodeChef and Codeforces scrapers             *)
(* (src/scrapers/codechef.py, src/scrapers/codeforces.py).                 *)
(*                                                                         *)
(* Conventions                                                             *)
(*  - A Python str that the code inspects character by character is a      *)
(*    sequence of one-character strings (<<"1", "\n", "2">>).  A str the   *)
(*    code only passes around (a JSON key, an error message) is a TLA+     *)
(*    string.                                                              *)
(*  - A Python float is kept in thousandths (256.0 is 256000), so that     *)
(*    1.5 * 1024.0 is exact.                                               *)
(*  - The remote side is the environment: the documents it serves are      *)
(*    drawn in Init or when a response arrives, and every fetch may fail.  *)
(***************************************************************************)
EXTENDS Integers, Sequences, FiniteSets, TLC

VARIABLES
    op,         \* the operation that was called on the adapter
    pc,         \* position of the operation: "start", "fetched", "fanout", "returned", "raised"
    contest,    \* CodeChef: the document /api/contests/{id} serves
    catalog,    \* CodeChef: the document /api/list/contests/all serves
    page,       \* Codeforces: the parsed DOM of /contest/{id}/problems
    slow,       \* sub-tasks whose remote answers are still outstanding
    problems,   \* CodeChef stream: the codes of the enumerated 'main' problems
    task,       \* the sub-tasks of the fan-out, with their local variables
    sem,        \* asyncio.Semaphore(CONNECTIONS): free permits and FIFO waiters
    doneq,      \* asyncio.as_completed: results of finished, not yet consumed sub-tasks
    completed,  \* history: sub-task ids in the order they finished
    consumed,   \* number of results the main coroutine took from as_completed
    contests,   \* CodeChef list: the accumulated ContestSummary list
    blocks,     \* Codeforces stream: parsed blocks not yet printed
    ret,        \* the envelope returned by a single-shot operation
    out,        \* the JSON objects printed on stdout, in order
    blocking    \* history: the synchronous fetch calls made, and where each ran

vars == <<op, pc, contest, catalog, page, slow, problems, task, sem, doneq,
          completed, consumed, contests, blocks, ret, out, blocking>>

-----------------------------------------------------------------------------
(* Bounds of the model *)

MaxProblems == 2    \* declared problems of a CodeChef contest
MaxBlocks == 2      \* problem blocks of a Codeforces page
MaxGen == 2         \* highest Starters generation of a catalog
MaxCases == 3       \* cases of a grouped Codeforces sample section
MaxLines == 2       \* input lines of one grouped case

-----------------------------------------------------------------------------
(* Program constants *)

CONNECTIONS == 8

DEFAULT_TIMEOUT_MS == 1000
DEFAULT_MEMORY_MB == 256000     \* 256.0

-----------------------------------------------------------------------------
(* Python str and float primitives *)

NL == "\n"
Digits == <<"0", "1", "2", "3", "4", "5", "6", "7", "8", "9">>
DigitSet == {Digits[i] : i \in 1..10}
DigitVal(c) == (CHOOSE i \in 1..10 : Digits[i] = c) - 1

IsSpace(c) == c \in {" ", "\n", "\t", "\r"}

SetMin(S) == CHOOSE x \in S : \A y \in S : x <= y
SetMax(S) == CHOOSE x \in S : \A y \in S : x >= y

\* str.strip()
Strip(s) ==
    LET keep == {i \in 1..Len(s) : ~IsSpace(s[i])}
    IN  IF keep = {} THEN <<>> ELSE SubSeq(s, SetMin(keep), SetMax(keep))

\* sep.join(parts)
RECURSIVE Join(_, _)
Join(parts, sep) ==
    IF parts = <<>> THEN <<>>
    ELSE IF Len(parts) = 1 THEN parts[1]
    ELSE parts[1] \o sep \o Join(Tail(parts), sep)

\* str(n) for a non-negative int
RECURSIVE StrOfNat(_)
StrOfNat(n) ==
    IF n < 10 THEN <<Digits[n + 1]>>
    ELSE StrOfNat(n \div 10) \o <<Digits[(n % 10) + 1]>>

\* int(digits) for a run of decimal digits (0 for the empty run)
RECURSIVE NatOfDigits(_)
NatOfDigits(s) ==
    IF s = <<>> THEN 0
    ELSE NatOfDigits(SubSeq(s, 1, Len(s) - 1)) * 10 + DigitVal(s[Len(s)])

ValueError == -1

\* float(s), in thousandths; ValueError when s is no decimal literal.  Covers
\* the literals <digits>[.<digits>] and .<digits> with at most three
\* fractional digits.
ParseFloat(s0) ==
    LET s == Strip(s0)
        dots == {i \in 1..Len(s) : s[i] = "."}
        wellFormed ==
            /\ \A i \in 1..Len(s) : s[i] \in DigitSet \cup {"."}
            /\ Cardinality(dots) <= 1
            /\ \E i \in 1..Len(s) : s[i] \in DigitSet
        d == IF dots = {} THEN Len(s) + 1 ELSE CHOOSE i \in dots : TRUE
        whole == SubSeq(s, 1, d - 1)
        frac == SubSeq(s, d + 1, Len(s))
        frac3 == SubSeq(frac \o <<"0", "0", "0">>, 1, 3)
    IN  IF wellFormed THEN NatOfDigits(whole) * 1000 + NatOfDigits(frac3)
        ELSE ValueError

-----------------------------------------------------------------------------
(* The remote side *)

\* How a remote fetch can fail: timeout, connection error, non-2xx status
\* (raise_for_status), unparsable body (r.json()).
FetchFaults == {"timeout", "connect", "status", "parse"}
FetchOutcomes == {"ok"} \cup FetchFaults

CONTEST_ID == "START209D"

ProblemCode(i) == <<"P">> \o StrOfNat(i)

\* One entry of the "problems" object of a contest document.  Entries with an
\* odd position carry a "name", the others do not.
ProblemEntry(i, cat) ==
    [code |-> ProblemCode(i), category_name |-> cat, hasName |-> (i % 2 = 1),
     name |-> <<"N">> \o StrOfNat(i)]

\* The contest documents: the "problems" key absent, or an object of
\* 0..n entries in document order, each 'main' or 'practice'.
ContestsOfSize(n) ==
    {[hasProblems |-> TRUE, problems |-> [i \in 1..n |-> ProblemEntry(i, cats[i])]] :
        cats \in [1..n -> {"main", "practice"}]}

ContestDocs ==
    {[hasProblems |-> FALSE, problems |-> <<>>]}
        \cup UNION {ContestsOfSize(n) : n \in 0..MaxProblems}

\* A contest whose problems are all 'main': more sub-tasks than permits.
CrowdedContest ==
    [hasProblems |-> TRUE,
     problems |-> [i \in 1..(CONNECTIONS + 1) |-> ProblemEntry(i, "main")]]

NoDoc == [hasProblems |-> FALSE, problems |-> <<>>]

\* dict.get("problems", {})
GetProblems(data) == IF data.hasProblems THEN data.problems ELSE <<>>

\* The sample test cases and the time limit of a problem-detail document.
\* input = <<"null">> stands for a JSON null (no str methods).
Null == <<"null">>
Sample(i, o, del) == [input |-> i, output |-> o, isDeleted |-> del]

ProblemDocs ==
    { [sampleTestCases |-> <<Sample(<<" ", "1", " ", "2", NL>>, <<"3", " ">>, FALSE),
                              Sample(<<"9">>, <<"9">>, TRUE)>>,
       hasTimelimit |-> TRUE, max_timelimit |-> <<"2">>],
      [sampleTestCases |-> <<>>,
       hasTimelimit |-> FALSE, max_timelimit |-> <<>>],
      [sampleTestCases |-> <<Sample(<<"1">>, <<"1">>, FALSE), Sample(<<"2">>, <<"4">>, FALSE)>>,
       hasTimelimit |-> TRUE, max_timelimit |-> <<"0", ".", "5">>],
      [sampleTestCases |-> <<Sample(<<"7">>, <<"8">>, FALSE)>>,
       hasTimelimit |-> TRUE, max_timelimit |-> <<"a", "b", "c">>],
      [sampleTestCases |-> <<Sample(Null, <<"8">>, FALSE)>>,
       hasTimelimit |-> TRUE, max_timelimit |-> <<"3">>] }

\* The public problem page, as what MEMORY_LIMIT_RE finds in it: no match, or
\* the number and the unit it captures.
HtmlDocs ==
    { [matched |-> FALSE, number |-> <<>>, unit |-> "MB"],
      [matched |-> TRUE, number |-> <<"1", ".", "5">>, unit |-> "gb"],
      [matched |-> TRUE, number |-> <<".">>, unit |-> "MB"] }

-----------------------------------------------------------------------------
(* Result envelopes *)

NoRet == [success |-> FALSE, error |-> "", contest_id |-> "", problems |-> <<>>,
          url |-> "", contests |-> <<>>, returned |-> FALSE]

\* BaseScraper._metadata_error
MetadataError(msg) ==
    [success |-> FALSE, error |-> msg, contest_id |-> "", problems |-> <<>>,
     url |-> "", contests |-> <<>>, returned |-> TRUE]

MetadataResult(cid, probs, url) ==
    [success |-> TRUE, error |-> "", contest_id |-> cid, problems |-> probs,
     url |-> url, contests |-> <<>>, returned |-> TRUE]

\* BaseScraper._contests_error
ContestsError(msg) ==
    [success |-> FALSE, error |-> msg, contest_id |-> "", problems |-> <<>>,
     url |-> "", contests |-> <<>>, returned |-> TRUE]

ContestListResult(cs) ==
    [success |-> TRUE, error |-> "", contest_id |-> "", problems |-> <<>>,
     url |-> "", contests |-> cs, returned |-> TRUE]

ProblemSummary(id, name) == [id |-> id, name |-> name]
TestCase(i, e) == [input |-> i, expected |-> e]

-----------------------------------------------------------------------------
(* asyncio.Semaphore and asyncio.as_completed *)

NewSemaphore == [value |-> CONNECTIONS, waiters |-> <<>>]

\* Semaphore.locked(): no free permit, or somebody is queued already
LockedNever(s) == FALSE
Locked(s) == s.value = 0 \/ s.waiters # <<>>

ReleaseNothing(s) == s
Release(s) == [s EXCEPT !.value = @ + 1]

NoTasks == <<>>

\* A synchronous fetch call and the thread it runs on: "thread" for a worker
\* thread (asyncio.to_thread, loop.run_in_executor), "loop" for the thread of
\* the event loop.
BlockingCall(call, on) == [call |-> call, on |-> on]
Holding(t) == task[t].pc \in {"json", "page"}
InFlight == Cardinality({t \in DOMAIN task : Holding(t)})

\* The sub-tasks all take their first step in the loop iteration that follows
\* as_completed(tasks), in the order of the task set: sub-tasks take permits
\* while there are any and start their fetch, the others queue on the
\* semaphore in FIFO order.
RECURSIVE StartInOrder(_, _, _)
StartInOrder(order, tk, s) ==
    IF order = <<>> THEN [task |-> tk, sem |-> s]
    ELSE LET t == Head(order)
         IN  IF Locked(s)
             THEN StartInOrder(Tail(order),
                               [tk EXCEPT ![t].pc = "wait"],
                               [s EXCEPT !.waiters = Append(@, t)])
             ELSE StartInOrder(Tail(order),
                               [tk EXCEPT ![t].pc = "json"],
                               [s EXCEPT !.value = @ - 1])

\* The start orders that differ in their outcome: who queues, and in which order.
StartOrders(n) ==
    LET k == IF n > CONNECTIONS THEN n - CONNECTIONS ELSE 0
        tails == {w \in [1..k -> 1..n] : \A i, j \in 1..k : i # j => w[i] # w[j]}
        Rest(w) == {t \in 1..n : \A i \in 1..k : w[i] # t}
        RECURSIVE Asc(_)
        Asc(S) == IF S = {} THEN <<>> ELSE <<SetMin(S)>> \o Asc(S \ {SetMin(S)})
    IN  {Asc(Rest(w)) \o w : w \in tails}

StartAll ==
    /\ pc = "fanout"
    /\ DOMAIN task # {}
    /\ \A t \in DOMAIN task : task[t].pc = "new"
    /\ \E order \in StartOrders(Len(task)) :
          LET st == StartInOrder(order, task, sem)
          IN  task' = st.task /\ sem' = st.sem
    /\ UNCHANGED <<blocking, op, pc, contest, catalog, page, slow, problems, doneq,
                   completed, consumed, contests, blocks, ret, out>>

\* A queued sub-task is woken by a release and takes the permit.
TaskResume(t) ==
    /\ t \in DOMAIN task
    /\ pc = "fanout"
    /\ task[t].pc = "wait"
    /\ sem.waiters # <<>> /\ Head(sem.waiters) = t
    /\ sem.value > 0
    /\ sem' = [value |-> sem.value - 1, waiters |-> Tail(sem.waiters)]
    /\ task' = [task EXCEPT ![t].pc = "json"]
    /\ UNCHANGED <<blocking, op, pc, contest, catalog, page, slow, problems, doneq,
                   completed, consumed, contests, blocks, ret, out>>

-----------------------------------------------------------------------------
(* CodeChef: scrape_contest_metadata *)

\* [ProblemSummary(...) for code, data in problems.items() if category_name == "main"]
RECURSIVE MainSummaries(_)
MainSummaries(ps) ==
    IF ps = <<>> THEN <<>>
    ELSE LET p == Head(ps)
         IN  (IF p.category_name = "main"
              THEN <<ProblemSummary(p.code, IF p.hasName THEN p.name ELSE p.code)>>
              ELSE <<>>) \o MainSummaries(Tail(ps))

CCMetadataResult(outcome, data) ==
    IF outcome # "ok" THEN MetadataError("Failed to fetch contest")
    ELSE IF GetProblems(data) = <<>> THEN MetadataError("No problems found for contest")
    ELSE MetadataResult(CONTEST_ID, MainSummaries(data.problems),
                        "https://www.codechef.com/START209D")

CCMetadata ==
    /\ op = "cc_meta" /\ pc = "start"
    /\ \E outcome \in FetchOutcomes : ret' = CCMetadataResult(outcome, contest)
    /\ pc' = "returned"
    /\ UNCHANGED <<blocking, op, contest, catalog, page, slow, problems, task, sem, doneq,
                   completed, consumed, contests, blocks, out>>

-----------------------------------------------------------------------------
(* CodeChef: stream_tests_for_category_async *)

ErrorRecord(msg) == [error |-> msg]

\* {code: data for code, data in all_problems.items() if category_name == "main"}
AllCodes(ps) == [i \in 1..Len(ps) |-> ps[i].code]
RECURSIVE MainCodes(_)
MainCodes(ps) ==
    IF ps = <<>> THEN <<>>
    ELSE (IF Head(ps).category_name = "main" THEN <<Head(ps).code>> ELSE <<>>)
            \o MainCodes(Tail(ps))

\* The local variables of run_one before the try block assigns them.
Unset == -1
NoProblemDoc == [sampleTestCases |-> <<>>, hasTimelimit |-> FALSE, max_timelimit |-> <<>>]
NoHtml == [matched |-> FALSE, number |-> <<>>, unit |-> "MB"]
NewLocals == [tests |-> <<>>, timeout_ms |-> Unset, memory_mb |-> Unset,
              interactive |-> FALSE]
NewTask(code) ==
    [pc |-> "new", problem_code |-> code, loc |-> NewLocals,
     faulted |-> "no", data |-> NoProblemDoc, html |-> NoHtml, children |-> <<>>]

\* Lines 154-187: the contest fetch and the enumeration of the sub-tasks.
CCStreamEnumerate ==
    /\ op = "cc_stream" /\ pc = "start"
    /\ \E outcome \in FetchOutcomes :
          IF outcome # "ok"
          THEN /\ out' = Append(out, ErrorRecord("Failed to fetch contest"))
               /\ pc' = "returned"
               /\ UNCHANGED <<problems, task, sem>>
          ELSE IF GetProblems(contest) = <<>>
          THEN /\ out' = Append(out, ErrorRecord("No problems found for contest"))
               /\ pc' = "returned"
               /\ UNCHANGED <<problems, task, sem>>
          ELSE IF MainCodes(contest.problems) = <<>>
          THEN /\ out' = Append(out, ErrorRecord("No main problems found for contest"))
               /\ pc' = "returned"
               /\ UNCHANGED <<problems, task, sem>>
          ELSE /\ problems' = MainCodes(contest.problems)
               /\ sem' = NewSemaphore
               /\ task' = [i \in 1..Len(problems') |-> NewTask(problems'[i])]
               /\ pc' = "fanout"
               /\ UNCHANGED out
    /\ UNCHANGED <<blocking, op, contest, catalog, page, slow, doneq, completed, consumed,
                   contests, blocks, ret>>

\* tests = [TestCase(input.strip(), output.strip()) for t in sample_tests if not isDeleted]
RECURSIVE LiveTests(_)
LiveTests(samples) ==
    IF samples = <<>> THEN <<>>
    ELSE LET t == Head(samples)
         IN  (IF t.isDeleted THEN <<>>
              ELSE <<TestCase(Strip(t.input), Strip(t.output))>>)
                \o LiveTests(Tail(samples))

\* None.strip() raises AttributeError
SamplesRaise(samples) ==
    \E i \in 1..Len(samples) :
        /\ ~samples[i].isDeleted
        /\ (samples[i].input = Null \/ samples[i].output = Null)

\* int(float(problem_data.get("max_timelimit", "1")) * 1000)
TimeoutMs(data) ==
    ParseFloat(IF data.hasTimelimit THEN data.max_timelimit ELSE <<"1">>)

\* _extract_memory_limit
ExtractMemoryLimit(html) ==
    IF ~html.matched THEN DEFAULT_MEMORY_MB
    ELSE LET value == ParseFloat(html.number)
         IN  IF value = ValueError THEN ValueError
             ELSE IF html.unit \in {"GB", "gb", "Gb", "gB"} THEN value * 1024
             ELSE value

\* Lines 199-214 of the try block, run when the detail document arrived: the
\* locals are assigned one after the other until a statement raises.
AfterDetail(loc, data) ==
    IF SamplesRaise(data.sampleTestCases) THEN [raised |-> TRUE, loc |-> loc]
    ELSE LET l1 == [loc EXCEPT !.tests = LiveTests(data.sampleTestCases)]
         IN  IF TimeoutMs(data) = ValueError THEN [raised |-> TRUE, loc |-> l1]
             ELSE [raised |-> FALSE, loc |-> [l1 EXCEPT !.timeout_ms = TimeoutMs(data)]]

\* Lines 220-221 of the try block, run when the public page arrived.
AfterHtml(loc, html) ==
    IF ExtractMemoryLimit(html) = ValueError THEN [raised |-> TRUE, loc |-> loc]
    ELSE [raised |-> FALSE,
          loc |-> [loc EXCEPT !.memory_mb = ExtractMemoryLimit(html),
                              !.interactive = FALSE]]

\* Lines 222-226: except Exception
ExceptHandlerKeepsTests(loc) ==
    [tests |-> loc.tests, timeout_ms |-> DEFAULT_TIMEOUT_MS,
     memory_mb |-> DEFAULT_MEMORY_MB, interactive |-> FALSE]
ExceptHandler(loc) ==
    [tests |-> <<>>, timeout_ms |-> DEFAULT_TIMEOUT_MS,
     memory_mb |-> DEFAULT_MEMORY_MB, interactive |-> FALSE]

RECURSIVE Inputs(_)
Inputs(tests) ==
    IF tests = <<>> THEN <<>> ELSE <<Head(tests).input>> \o Inputs(Tail(tests))
RECURSIVE Expecteds(_)
Expecteds(tests) ==
    IF tests = <<>> THEN <<>> ELSE <<Head(tests).expected>> \o Expecteds(Tail(tests))

\* Lines 227-244: the record of one problem
Payload(code, loc) ==
    [problem_id |-> code,
     combined |-> [input |-> IF loc.tests # <<>> THEN Join(Inputs(loc.tests), <<NL>>) ELSE <<>>,
                   expected |-> IF loc.tests # <<>> THEN Join(Expecteds(loc.tests), <<NL>>)
                                ELSE <<>>],
     tests |-> loc.tests,
     timeout_ms |-> loc.timeout_ms,
     memory_mb |-> loc.memory_mb,
     interactive |-> loc.interactive,
     multi_test |-> FALSE]

\* asyncio.as_completed hands results over in the order the sub-tasks finish.
PutFront(q, x) == <<x>> \o q
Put(q, x) == Append(q, x)

\* The next result is taken as soon as one sub-task has finished.
OneFinished == doneq # <<>>

\* run_one returns its record: the permit goes back (end of `async with sem`)
\* and the record is queued for the main coroutine.  faulted remembers the
\* statement of the try block that raised ("no" when none did), data and html
\* the documents a sub-task without a fault was served.
FinishRunOne(t, loc, fault, data, html) ==
    /\ task' = [task EXCEPT ![t] =
                    [pc |-> "done", problem_code |-> task[t].problem_code,
                     loc |-> NewLocals, faulted |-> fault,
                     data |-> IF fault # "no" THEN NoProblemDoc ELSE data,
                     html |-> IF fault # "no" THEN NoHtml ELSE html,
                     children |-> <<>>]]
    /\ sem' = Release(sem)
    /\ doneq' = Put(doneq, Payload(task[t].problem_code, loc))
    /\ completed' = Append(completed, t)

\* Lines 193-214: the answer to the problem-detail fetch arrives.
TaskDetail(t) ==
    /\ t \in DOMAIN task
    /\ op = "cc_stream" /\ pc = "fanout"
    /\ task[t].pc = "json" /\ t \notin slow
    /\ \/ \* the fetch raises
          FinishRunOne(t, ExceptHandler(task[t].loc), "detail", NoProblemDoc, NoHtml)
       \/ \E data \in ProblemDocs :
            LET r == AfterDetail(task[t].loc, data)
            IN  IF r.raised
                THEN FinishRunOne(t, ExceptHandler(r.loc), "parse", NoProblemDoc, NoHtml)
                ELSE /\ task' = [task EXCEPT ![t].pc = "page", ![t].loc = r.loc,
                                            ![t].data = data]
                     /\ UNCHANGED <<sem, doneq, completed>>
    /\ \* run_in_executor(None, _fetch_html_sync, problem_url)
       blocking' = IF task'[t].pc = "page"
                   THEN blocking \cup {BlockingCall("curl_requests.get", "thread")}
                   ELSE blocking
    /\ UNCHANGED <<op, pc, contest, catalog, page, slow, problems, consumed,
                   contests, blocks, ret, out>>

\* Lines 193-198 and 222-226: the detail fetch of a slow sub-task runs into
\* TIMEOUT_S.  The timeouts fire long after the answers of the other
\* sub-tasks, when what had finished is printed, one after the other.
TaskTimeout(t) ==
    /\ t \in DOMAIN task
    /\ op = "cc_stream" /\ pc = "fanout"
    /\ task[t].pc = "json" /\ t \in slow
    /\ \A u \in DOMAIN task \ slow : task[u].pc = "done"
    /\ doneq = <<>>
    /\ \A u \in slow : u < t => task[u].pc \in {"done", "wait"}
    /\ FinishRunOne(t, ExceptHandler(task[t].loc), "detail", NoProblemDoc, NoHtml)
    /\ UNCHANGED <<blocking, op, pc, contest, catalog, page, slow, problems, consumed,
                   contests, blocks, ret, out>>

\* Lines 215-226: the executor's page fetch ends.
TaskHtml(t) ==
    /\ t \in DOMAIN task
    /\ op = "cc_stream" /\ pc = "fanout"
    /\ task[t].pc = "page" /\ t \notin slow
    /\ \/ \* _fetch_html_sync raises
          FinishRunOne(t, ExceptHandler(task[t].loc), "page", NoProblemDoc, NoHtml)
       \/ \E html \in HtmlDocs :
            LET r == AfterHtml(task[t].loc, html)
            IN  IF r.raised
                THEN FinishRunOne(t, ExceptHandler(r.loc), "memory", NoProblemDoc, NoHtml)
                ELSE FinishRunOne(t, r.loc, "no", task[t].data, html)
    /\ UNCHANGED <<blocking, op, pc, contest, catalog, page, slow, problems, consumed,
                   contests, blocks, ret, out>>

\* Lines 247-249: the main coroutine takes the next finished record and prints
\* it; after the last one the operation returns.
PrintNext ==
    /\ op = "cc_stream" /\ pc = "fanout"
    /\ OneFinished
    /\ out' = Append(out, Head(doneq))
    /\ doneq' = Tail(doneq)
    /\ consumed' = consumed + 1
    /\ pc' = IF consumed' = Len(task) THEN "returned" ELSE pc
    /\ UNCHANGED <<blocking, op, contest, catalog, page, slow, problems, task, sem,
                   completed, contests, blocks, ret>>

-----------------------------------------------------------------------------
(* CodeChef: scrape_contest_list *)

START == <<"S", "T", "A", "R", "T">>

\* str.startswith
StartsWith(s, prefix) == Len(s) >= Len(prefix) /\ SubSeq(s, 1, Len(prefix)) = prefix

\* The run of decimal digits of s that begins at position i
RECURSIVE DigitRun(_, _)
DigitRun(s, i) ==
    IF i <= Len(s) /\ s[i] \in DigitSet THEN <<s[i]>> \o DigitRun(s, i + 1) ELSE <<>>

\* Lines 103-108: the number of one catalog entry, 0 when it is no Starters code
StartersNumber(contest_code) ==
    IF StartsWith(contest_code, START) /\ DigitRun(contest_code, Len(START) + 1) # <<>>
    THEN NatOfDigits(DigitRun(contest_code, Len(START) + 1))
    ELSE 0

\* Lines 98-108
MaxNumFirst(all_contests) ==
    IF all_contests = <<>> THEN 0 ELSE StartersNumber(Head(all_contests))
RECURSIVE MaxNum(_)
MaxNum(all_contests) ==
    IF all_contests = <<>> THEN 0
    ELSE LET rest == MaxNum(Tail(all_contests))
             num == StartersNumber(Head(all_contests))
         IN  IF num > rest THEN num ELSE rest

ParentId(i) == START \o StrOfNat(i)
BaseName(i) == <<"S", "t", "a", "r", "t", "e", "r", "s", " ">> \o StrOfNat(i)

ContestSummary(id, name, display) == [id |-> id, name |-> name, display_name |-> display]

Division(code, num) == [contest_code |-> code, div_number |-> num]

\* What /api/contests/START{i} can serve: its child_contests, in document
\* order (a missing code or division number is the empty str of dict.get).
ParentDocs(i) ==
    { <<>>,
      <<Division(ParentId(i) \o <<"A">>, <<"1">>), Division(<<>>, <<"2">>)>>,
      <<Division(ParentId(i) \o <<"B">>, <<"x">>), Division(ParentId(i) \o <<"C">>, <<>>)>> }

\* Lines 126-142
RECURSIVE Divisions(_, _)
Divisions(i, child_contests) ==
    IF child_contests = <<>> THEN <<>>
    ELSE LET d == Head(child_contests)
         IN  (IF d.contest_code # <<>> /\ d.div_number # <<>>
              THEN <<ContestSummary(d.contest_code, BaseName(i),
                        BaseName(i) \o <<" ", "(", "D", "i", "v", ".", " ">>
                            \o d.div_number \o <<")">>)>>
              ELSE <<>>) \o Divisions(i, Tail(child_contests))

\* Lines 93-112: the catalog fetch and the discovery of the generations.
CCListDiscover ==
    /\ op = "cc_list" /\ pc = "start"
    /\ \E outcome \in FetchOutcomes :
          IF outcome = "status"
          THEN /\ ret' = ContestsError("Failed to fetch contests")
               /\ pc' = "returned"
               /\ UNCHANGED <<task, sem>>
          ELSE IF outcome # "ok"
          THEN \* only httpx.HTTPStatusError is caught
               /\ pc' = "raised"
               /\ UNCHANGED <<ret, task, sem>>
          ELSE LET max_num == MaxNum(catalog.future_contests \o catalog.past_contests)
               IN  IF max_num = 0
                   THEN /\ ret' = ContestsError("No Starters contests found")
                        /\ pc' = "returned"
                        /\ UNCHANGED <<task, sem>>
                   ELSE /\ sem' = NewSemaphore
                        /\ task' = [i \in 1..max_num |-> NewTask(ParentId(i))]
                        /\ pc' = "fanout"
                        /\ UNCHANGED ret
    /\ UNCHANGED <<blocking, op, contest, catalog, page, slow, problems, doneq, completed,
                   consumed, contests, blocks, out>>

\* Lines 114-142: the answer to the fetch of generation t arrives; the permit
\* goes back and the divisions are queued for the main coroutine.  faulted
\* remembers a fetch that raised, children the child_contests that were served.
FetchDivisions(t) ==
    /\ t \in DOMAIN task
    /\ op = "cc_list" /\ pc = "fanout"
    /\ task[t].pc = "json" /\ t \notin slow
    /\ \/ \* lines 121-125: the fetch raises
          /\ doneq' = Put(doneq, <<>>)
          /\ task' = [task EXCEPT ![t].pc = "done", ![t].faulted = "detail"]
       \/ \E child_contests \in ParentDocs(t) :
          /\ doneq' = Put(doneq, Divisions(t, child_contests))
          /\ task' = [task EXCEPT ![t].pc = "done", ![t].children = child_contests]
    /\ sem' = Release(sem)
    /\ completed' = Append(completed, t)
    /\ UNCHANGED <<blocking, op, pc, contest, catalog, page, slow, problems, consumed,
                   contests, blocks, ret, out>>

\* Lines 117-125: the fetch of a slow generation runs into TIMEOUT_S, long
\* after the answers of the others; fetch_divisions returns [].
DivisionsTimeout(t) ==
    /\ t \in DOMAIN task
    /\ op = "cc_list" /\ pc = "fanout"
    /\ task[t].pc = "json" /\ t \in slow
    /\ \A u \in DOMAIN task \ slow : task[u].pc = "done"
    /\ doneq = <<>>
    /\ \A u \in slow : u < t => task[u].pc \in {"done", "wait"}
    /\ doneq' = Put(doneq, <<>>)
    /\ task' = [task EXCEPT ![t].pc = "done", ![t].faulted = "detail"]
    /\ sem' = Release(sem)
    /\ completed' = Append(completed, t)
    /\ UNCHANGED <<blocking, op, pc, contest, catalog, page, slow, problems, consumed,
                   contests, blocks, ret, out>>

\* Lines 145-148
ExtendContests ==
    /\ op = "cc_list" /\ pc = "fanout"
    /\ OneFinished
    /\ contests' = contests \o Head(doneq)
    /\ doneq' = Tail(doneq)
    /\ consumed' = consumed + 1
    /\ IF consumed' = Len(task)
       THEN pc' = "returned" /\ ret' = ContestListResult(contests')
       ELSE UNCHANGED <<pc, ret>>
    /\ UNCHANGED <<blocking, op, contest, catalog, page, slow, problems, task, sem,
                   completed, blocks, out>>

\* The catalogs: at most one future and one past entry, among the Starters
\* codes 0..MaxGen, a code with a letter after the number, and two codes
\* without a number.
CatalogCodes ==
    {ParentId(g) : g \in 0..MaxGen}
        \cup {ParentId(MaxGen) \o <<"A">>, START, <<"C", "O", "O", "K", "3">>}
UpToOne(S) == {<<>>} \cup {<<x>> : x \in S}
Catalogs ==
    [future_contests : UpToOne(CatalogCodes), past_contests : UpToOne(CatalogCodes)]
CrowdedCatalog ==
    [future_contests |-> <<ParentId(CONNECTIONS + 1)>>, past_contests |-> <<>>]
NoCatalog == [future_contests |-> <<>>, past_contests |-> <<>>]

-----------------------------------------------------------------------------
(* Codeforces: the extraction engine *)

\* A <pre> is the sequence of its children: a bare text node, or a
\* <div class="test-example-line ..."> whose numeric class suffix is gid
\* (NoGid when the class carries no number).
NoGid == -1
TextNode(txt) == [line |-> FALSE, gid |-> NoGid, text |-> txt]
LineNode(g, txt) == [line |-> TRUE, gid |-> g, text |-> txt]

\* .replace("\r", "").replace("\xa0", " ")
RECURSIVE Normalize(_)
Normalize(s) ==
    IF s = <<>> THEN <<>>
    ELSE (IF Head(s) = "\r" THEN <<>>
          ELSE IF Head(s) = "nbsp" THEN <<" ">>
          ELSE <<Head(s)>>) \o Normalize(Tail(s))

RECURSIVE Texts(_)
Texts(pre) == IF pre = <<>> THEN <<>> ELSE <<Head(pre).text>> \o Texts(Tail(pre))

\* _text_from_pre
TextFromPre(pre) == Strip(Normalize(Join(Texts(pre), <<NL>>)))

\* _group_lines_by_id(pre)[g], the empty list when g is no key
RECURSIVE GroupLines(_, _)
GroupLines(pre, g) ==
    IF pre = <<>> THEN <<>>
    ELSE (IF Head(pre).line /\ Head(pre).gid = g THEN <<Head(pre).text>> ELSE <<>>)
            \o GroupLines(Tail(pre), g)

\* the keys of _group_lines_by_id(pre)
GroupIds(pre) == {pre[i].gid : i \in {j \in 1..Len(pre) : pre[j].line /\ pre[j].gid # NoGid}}

\* inputs_by_gid[g] after the loop over the <pre> elements (lines 103-110)
RECURSIVE LinesByGid(_, _)
LinesByGid(pres, g) ==
    IF pres = <<>> THEN <<>>
    ELSE GroupLines(Head(pres), g) \o LinesByGid(Tail(pres), g)

KeysOf(pres) == UNION {GroupIds(pres[i]) : i \in 1..Len(pres)}

RECURSIVE Ascending(_)
Ascending(S) == IF S = {} THEN <<>> ELSE <<SetMin(S)>> \o Ascending(S \ {SetMin(S)})

NoSamples == [hasSampleTest |-> FALSE, input_pres |-> <<>>, output_pres |-> <<>>]
Section(ins, outs) == [hasSampleTest |-> TRUE, input_pres |-> ins, output_pres |-> outs]

\* _extract_samples: (samples, is_grouped)
ExtractSamples(st) ==
    IF ~st.hasSampleTest THEN [samples |-> <<>>, grouped |-> FALSE]
    ELSE
      LET all == st.input_pres \o st.output_pres
          has_grouped == \E i \in 1..Len(all) : \E j \in 1..Len(all[i]) : all[i][j].line
          keys == Ascending((KeysOf(st.input_pres) \ {0}) \cap (KeysOf(st.output_pres) \ {0}))
          n == IF Len(st.input_pres) < Len(st.output_pres)
               THEN Len(st.input_pres) ELSE Len(st.output_pres)
      IN  IF has_grouped /\ keys # <<>>
          THEN [samples |->
                  [i \in 1..Len(keys) |->
                      TestCase(Strip(Join(LinesByGid(st.input_pres, keys[i]), <<NL>>)),
                               Strip(Join(LinesByGid(st.output_pres, keys[i]), <<NL>>)))],
                grouped |-> TRUE]
          ELSE [samples |->
                  [i \in 1..n |-> TestCase(TextFromPre(st.input_pres[i]),
                                           TextFromPre(st.output_pres[i]))],
                grouped |-> FALSE]

\* re.search(r"(\d+)\s*<unit>", txt): the number captured, NoMatch otherwise
NoMatch == -1
RECURSIVE SkipSpaces(_, _)
SkipSpaces(s, i) == IF i <= Len(s) /\ IsSpace(s[i]) THEN SkipSpaces(s, i + 1) ELSE i
SearchNumberUnit(txt, unit) ==
    LET hits == {i \in 1..Len(txt) :
                    /\ txt[i] \in DigitSet
                    /\ LET e == SkipSpaces(txt, i + Len(DigitRun(txt, i)))
                       IN  /\ e + Len(unit) - 1 <= Len(txt)
                           /\ SubSeq(txt, e, e + Len(unit) - 1) = unit}
    IN  IF hits = {} THEN NoMatch ELSE NatOfDigits(DigitRun(txt, SetMin(hits)))

SECOND == <<"s", "e", "c", "o", "n", "d">>
MEGABYTE == <<"m", "e", "g", "a", "b", "y", "t", "e">>

\* _extract_limits: (timeout_ms, memory_mb)
ExtractLimits(b) ==
    [timeout_ms |->
        IF b.hasTimeLimit /\ SearchNumberUnit(b.ttxt, SECOND) # NoMatch
        THEN SearchNumberUnit(b.ttxt, SECOND) * 1000 ELSE 0,
     memory_mb |->
        IF b.hasMemoryLimit /\ SearchNumberUnit(b.mtxt, MEGABYTE) # NoMatch
        THEN SearchNumberUnit(b.mtxt, MEGABYTE) * 1000 ELSE 0]

\* _extract_title(block)[1]
TitleName(b) ==
    IF ~b.hasTitle THEN <<>>
    ELSE LET s == Strip(b.title)
             dots == {i \in 1..Len(s) : s[i] = "."}
         IN  IF dots = {} THEN Strip(s)
             ELSE Strip(SubSeq(s, SetMin(dots) + 1, Len(s)))

\* str.upper() and str.lower() on the letters of the model's alphabet
UpperChar(c) == CASE c = "a" -> "A" [] c = "b" -> "B" [] c = "c" -> "C" [] OTHER -> c
LowerChar(c) == CASE c = "A" -> "a" [] c = "B" -> "b" [] c = "C" -> "c" [] OTHER -> c
Upper(s) == [i \in 1..Len(s) |-> UpperChar(s[i])]
Lower(s) == [i \in 1..Len(s) |-> LowerChar(s[i])]

\* Line 149: holder.get("problemindex") is None when the attribute is missing
LetterRaises(b) == b.hasHolder /\ ~b.hasIndex
Letter(b) == IF b.hasHolder THEN Upper(Strip(b.problemindex)) ELSE <<>>

\* Lines 153-183: the record of one block
ParseBlockUnframed(b) ==
    LET ex == ExtractSamples(b.sample_test)
        limits == ExtractLimits(b)
    IN  [letter |-> Letter(b),
         name |-> TitleName(b),
         combined_input |-> StrOfNat(Len(ex.samples)) \o <<NL>> \o Join(Inputs(ex.samples), <<NL>>),
         combined_expected |-> Join(Expecteds(ex.samples), <<NL>>),
         tests |-> ex.samples,
         timeout_ms |-> limits.timeout_ms,
         memory_mb |-> limits.memory_mb,
         interactive |-> b.interactive,
         multi_test |-> ex.grouped]
ParseBlock(b) ==
    LET ex == ExtractSamples(b.sample_test)
        raw_samples == ex.samples
        is_grouped == ex.grouped
        limits == ExtractLimits(b)
        framed == is_grouped /\ raw_samples # <<>>
    IN  [letter |-> Letter(b),
         name |-> TitleName(b),
         combined_input |->
            IF framed
            THEN StrOfNat(Len(raw_samples)) \o <<NL>> \o Join(Inputs(raw_samples), <<NL>>)
            ELSE Join(Inputs(raw_samples), <<NL>>),
         combined_expected |-> Join(Expecteds(raw_samples), <<NL>>),
         tests |->
            IF framed
            THEN [i \in 1..Len(raw_samples) |->
                    TestCase(<<"1", NL>> \o raw_samples[i].input, raw_samples[i].expected)]
            ELSE raw_samples,
         timeout_ms |-> limits.timeout_ms,
         memory_mb |-> limits.memory_mb,
         interactive |-> b.interactive,
         multi_test |-> is_grouped]

\* _parse_all_blocks: the records of the blocks with a letter, in document
\* order; raised when a statement of the loop raises.
RECURSIVE ParsedBlocks(_)
ParsedBlocks(html) ==
    IF html = <<>> THEN <<>>
    ELSE (IF Letter(Head(html)) = <<>> THEN <<>> ELSE <<ParseBlock(Head(html))>>)
            \o ParsedBlocks(Tail(html))

ParseAllBlocks(html) ==
    IF \E i \in 1..Len(html) : LetterRaises(html[i])
    THEN [raised |-> TRUE, out |-> <<>>]
    ELSE [raised |-> FALSE, out |-> ParsedBlocks(html)]

-----------------------------------------------------------------------------
(* Codeforces: the pages the remote side serves *)

Block(holder, hasIdx, idx, sample, limits) ==
    [hasHolder |-> holder, hasIndex |-> hasIdx, problemindex |-> idx,
     hasTitle |-> TRUE, title |-> <<"A", ".", " ", "S", "u", "m">>,
     sample_test |-> sample,
     hasTimeLimit |-> limits, ttxt |-> <<"2", " ", "s", "e", "c", "o", "n", "d", "s">>,
     hasMemoryLimit |-> limits,
     mtxt |-> <<"2", "5", "6", " ", "m", "e", "g", "a", "b", "y", "t", "e", "s">>,
     interactive |-> FALSE]

PlainSection ==
    Section(<<<<TextNode(<<"1", " ", "2">>)>>>>, <<<<TextNode(<<"3">>)>>>>)

\* A grouped section of k cases: one input <pre> with a count line (group 0)
\* and lines[g] lines for case g, one output <pre> with one line per case.
RECURSIVE CaseLines(_, _)
CaseLines(g, n) ==
    IF n = 0 THEN <<>> ELSE CaseLines(g, n - 1) \o <<LineNode(g, StrOfNat(10 * g + n))>>
RECURSIVE InputLines(_, _)
InputLines(lines, k) ==
    IF k = 0 THEN <<>> ELSE InputLines(lines, k - 1) \o CaseLines(k, lines[k])
GroupedSection(lines) ==
    Section(<<<<LineNode(0, StrOfNat(Len(lines)))>> \o InputLines(lines, Len(lines))>>,
            <<[g \in 1..Len(lines) |-> LineNode(g, StrOfNat(g))]>>)

\* The blocks of the pages: an ungrouped problem A, a grouped problem whose
\* index is the same letter in lower case, a grouped problem B with a single
\* case and no limits, a block outside any problemindexholder, and a holder
\* without the problemindex attribute.
PageBlocks ==
    { Block(TRUE, TRUE, <<"A">>, PlainSection, TRUE),
      Block(TRUE, TRUE, <<"a">>, GroupedSection(<<1, 2>>), TRUE),
      Block(TRUE, TRUE, <<" ", "B">>, GroupedSection(<<1>>), FALSE),
      Block(FALSE, FALSE, <<>>, NoSamples, TRUE),
      Block(TRUE, FALSE, <<>>, NoSamples, TRUE) }

Pages == UNION {[1..n -> PageBlocks] : n \in 0..MaxBlocks}

\* Pages of one problem A whose sample section is grouped, with up to
\* MaxCases cases of up to MaxLines input lines each, or ungrouped.
\* One ungrouped pair ("1 2" -> "3") next to one grouped sample of two
\* numbered lines.
MixedSection ==
    Section(<<<<TextNode(<<"1", " ", "2">>)>>,
              <<LineNode(1, <<"1", "1">>), LineNode(1, <<"1", "2">>)>>>>,
            <<<<TextNode(<<"3">>)>>, <<LineNode(1, <<"1">>)>>>>)

\* Line markers whose group ids on the input side and on the output side are
\* disjoint, and line markers on the input side only.
DisjointSection ==
    Section(<<<<LineNode(1, <<"5">>)>>>>, <<<<LineNode(2, <<"6">>)>>>>)
OneSidedSection ==
    Section(<<<<LineNode(1, <<"5">>), LineNode(2, <<"7">>)>>>>, <<<<TextNode(<<"6">>)>>>>)

\* The lines of group 1 split over two input elements, a group 3 without
\* output, and the output elements in the opposite order of the groups.
SplitSection ==
    Section(<<<<LineNode(0, <<"2">>), LineNode(1, <<" ", "1", "1">>)>>,
              <<LineNode(1, <<"1", "2">>), LineNode(2, <<"2", "1">>),
                LineNode(3, <<"3", "1">>)>>>>,
            <<<<LineNode(2, <<"2">>)>>, <<LineNode(1, <<"1">>)>>>>)

SampleSections ==
    {NoSamples, PlainSection, MixedSection, DisjointSection, OneSidedSection, SplitSection}
        \cup UNION {{GroupedSection(l) : l \in [1..k -> 1..MaxLines]} : k \in 0..MaxCases}
SamplePages ==
    {<<Block(TRUE, TRUE, <<"A">>, st, TRUE)>> : st \in SampleSections}

\* The answers of the contest.list API: "status", and the phases of "result"
ApiDocs ==
    { [status |-> "FAILED", result |-> <<>>],
      [status |-> "OK", result |-> <<>>],
      [status |-> "OK", result |-> <<"BEFORE">>],
      [status |-> "OK", result |-> <<"FINISHED", "BEFORE", "FINISHED">>] }

-----------------------------------------------------------------------------
(* Codeforces: the three operations *)

\* str(e) of the exception a failed fetch raises
FaultMessage(outcome) ==
    CASE outcome = "timeout" -> "Operation timed out"
      [] outcome = "connect" -> "Failed to connect"
      [] outcome = "status" -> "HTTP Error 403"
      [] OTHER -> "Expecting value"

\* _scrape_contest_problems_sync, after the fetch
RECURSIVE Summaries(_)
Summaries(bs) ==
    IF bs = <<>> THEN <<>>
    ELSE <<ProblemSummary(Lower(Upper(Head(bs).letter)), Head(bs).name)>>
            \o Summaries(Tail(bs))

CFMetadataResult(outcome, html) ==
    IF outcome # "ok" THEN MetadataError(FaultMessage(outcome))
    ELSE IF ParseAllBlocks(html).raised
    THEN MetadataError("'NoneType' object has no attribute 'strip'")
    ELSE IF Summaries(ParseAllBlocks(html).out) = <<>>
    THEN MetadataError("No problems found for contest")
    ELSE MetadataResult(CONTEST_ID, Summaries(ParseAllBlocks(html).out),
                        "https://codeforces.com/contest/START209D/problem/%s")

\* Lines 202-219; text bodies are never unparsable
CFMetadata ==
    /\ op = "cf_meta" /\ pc = "start"
    /\ \E outcome \in FetchOutcomes \ {"parse"} : ret' = CFMetadataResult(outcome, page)
    /\ pc' = "returned"
    /\ \* asyncio.to_thread(_scrape_contest_problems_sync, contest_id)
       blocking' = blocking \cup {BlockingCall("curl_requests.get", "thread")}
    /\ UNCHANGED <<op, contest, catalog, page, slow, problems, task, sem, doneq,
                   completed, consumed, contests, blocks, out>>

RECURSIVE Finished(_, _)
Finished(result, i) ==
    IF result = <<>> THEN <<>>
    ELSE (IF Head(result) = "FINISHED"
          THEN <<ContestSummary(StrOfNat(i), <<"R">> \o StrOfNat(i), <<"R">> \o StrOfNat(i))>>
          ELSE <<>>) \o Finished(Tail(result), i + 1)

CFContestListResult(outcome, data) ==
    IF outcome # "ok" THEN ContestsError(FaultMessage(outcome))
    ELSE IF data.status # "OK" THEN ContestsError("Invalid API response")
    ELSE IF Finished(data.result, 1) = <<>> THEN ContestsError("No contests found")
    ELSE ContestListResult(Finished(data.result, 1))

\* Lines 221-242
CFContestList ==
    /\ op = "cf_list" /\ pc = "start"
    /\ \E outcome \in FetchOutcomes : \E data \in ApiDocs :
          ret' = CFContestListResult(outcome, data)
    /\ pc' = "returned"
    /\ \* requests.get(API_CONTEST_LIST_URL) in the coroutine itself
       blocking' = blocking \cup {BlockingCall("requests.get", "loop")}
    /\ UNCHANGED <<op, contest, catalog, page, slow, problems, task, sem, doneq,
                   completed, consumed, contests, blocks, out>>

\* Line 245: html = await asyncio.to_thread(_fetch_problems_html, category_id)
CFStreamFetch ==
    /\ op = "cf_stream" /\ pc = "start"
    /\ \E outcome \in FetchOutcomes \ {"parse"} :
          pc' = IF outcome = "ok" THEN "fetched" ELSE "raised"
    /\ \* asyncio.to_thread(_fetch_problems_html, category_id)
       blocking' = blocking \cup {BlockingCall("curl_requests.get", "thread")}
    /\ UNCHANGED <<op, contest, catalog, page, slow, problems, task, sem, doneq,
                   completed, consumed, contests, blocks, ret, out>>

\* Line 246: blocks = await asyncio.to_thread(_parse_all_blocks, html)
CFStreamParse ==
    /\ op = "cf_stream" /\ pc = "fetched"
    /\ IF ParseAllBlocks(page).raised
       THEN pc' = "raised" /\ UNCHANGED blocks
       ELSE /\ blocks' = ParseAllBlocks(page).out
            /\ pc' = IF blocks' = <<>> THEN "returned" ELSE "printing"
    /\ UNCHANGED <<blocking, op, contest, catalog, page, slow, problems, task, sem, doneq,
                   completed, consumed, contests, ret, out>>

\* Lines 249-266: the record printed for one block
CFRecord(b) ==
    [problem_id |-> Lower(b.letter),
     combined |-> [input |-> b.combined_input, expected |-> b.combined_expected],
     tests |-> b.tests,
     timeout_ms |-> b.timeout_ms,
     memory_mb |-> b.memory_mb,
     interactive |-> b.interactive,
     multi_test |-> b.multi_test]

\* Lines 248-269: one iteration of the loop over the blocks
CFStreamPrint ==
    /\ op = "cf_stream" /\ pc = "printing"
    /\ out' = Append(out, CFRecord(Head(blocks)))
    /\ blocks' = Tail(blocks)
    /\ pc' = IF blocks' = <<>> THEN "returned" ELSE pc
    /\ UNCHANGED <<blocking, op, contest, catalog, page, slow, problems, task, sem, doneq,
                   completed, consumed, contests, ret>>

-----------------------------------------------------------------------------
(* Specifications *)

Idle ==
    /\ pc = "start"
    /\ problems = <<>> /\ task = NoTasks /\ sem = NewSemaphore
    /\ doneq = <<>> /\ completed = <<>> /\ consumed = 0
    /\ contests = <<>> /\ blocks = <<>> /\ ret = NoRet /\ out = <<>>
    /\ blocking = {}

InitCCMeta ==
    /\ op = "cc_meta" /\ contest \in ContestDocs
    /\ catalog = NoCatalog /\ page = <<>> /\ slow = {} /\ Idle

InitCCList ==
    /\ op = "cc_list"
    /\ \/ catalog \in Catalogs /\ slow = {}
       \/ catalog = CrowdedCatalog /\ slow = 1..(CONNECTIONS - 1)
    /\ contest = NoDoc /\ page = <<>> /\ Idle

InitCCStream ==
    /\ op = "cc_stream"
    /\ \/ contest \in ContestDocs /\ slow = {}
       \/ contest = CrowdedContest /\ slow = 1..(CONNECTIONS - 1)
    /\ catalog = NoCatalog /\ page = <<>> /\ Idle

InitCF ==
    /\ op \in {"cf_meta", "cf_stream"}
    /\ page \in Pages \cup SamplePages
    /\ contest = NoDoc /\ catalog = NoCatalog /\ slow = {} /\ Idle

InitCFList ==
    /\ op = "cf_list" /\ page = <<>>
    /\ contest = NoDoc /\ catalog = NoCatalog /\ slow = {} /\ Idle

NextCCList ==
    \/ CCListDiscover
    \/ \E t \in DOMAIN task : FetchDivisions(t)
    \/ \E t \in DOMAIN task : DivisionsTimeout(t)
    \/ ExtendContests

NextCCStream ==
    \/ CCStreamEnumerate
    \/ \E t \in DOMAIN task : TaskDetail(t)
    \/ \E t \in DOMAIN task : TaskHtml(t)
    \/ \E t \in DOMAIN task : TaskTimeout(t)
    \/ PrintNext

NextFanOut ==
    \/ StartAll
    \/ \E t \in DOMAIN task : TaskResume(t)

NextCF ==
    \/ CFMetadata
    \/ CFContestList
    \/ CFStreamFetch
    \/ CFStreamParse
    \/ CFStreamPrint

Init == InitCCMeta \/ InitCCList \/ InitCCStream \/ InitCF \/ InitCFList

Next == CCMetadata \/ NextCCList \/ NextCCStream \/ NextFanOut \/ NextCF

Spec == Init /\ [][Next]_vars

\* The streaming operation of CodeChef alone.  The event loop runs a callback
\* that is ready and every fetch ends in an answer or in its timeout, so the
\* operation does not stop while one of its steps can be taken.
InitStream == InitCCStream

NextStream == NextCCStream \/ NextFanOut

FairStream == InitStream /\ [][NextStream]_vars /\ WF_vars(NextStream)

-----------------------------------------------------------------------------
(* Claims *)

Ended == pc \in {"returned", "raised"}
IsProblemRecord(r) == "problem_id" \in DOMAIN r
IsErrorRecord(r) == "error" \in DOMAIN r

\* C1: scrape_contest_metadata of either adapter returns (success, non-empty
\* problems, non-empty url) or (failure, non-empty error, no problems), and
\* nothing else.
C1_MetadataNeverMixed ==
    (op \in {"cc_meta", "cf_meta"} /\ pc = "returned") =>
        \/ ret.success /\ ret.problems # <<>> /\ ret.url # ""
        \/ ~ret.success /\ ret.error # "" /\ ret.problems = <<>>

\* C2: whatever way a remote fetch fails, no operation of either adapter lets
\* an exception out to its caller.
C2_NoExceptionEscapes == pc # "raised"

\* The record the documentation promises for a problem whose sub-task failed
FallbackRecord(code) ==
    [problem_id |-> code,
     combined |-> [input |-> <<>>, expected |-> <<>>],
     tests |-> <<>>,
     timeout_ms |-> 1000,
     memory_mb |-> 256000,
     interactive |-> FALSE,
     multi_test |-> FALSE]

\* The record of a problem as its own two documents determine it
RecordFromDocs(code, data, html) ==
    Payload(code, AfterHtml(AfterDetail(NewLocals, data).loc, html).loc)

Produced == out \o doneq
TaskOf(code) == CHOOSE t \in DOMAIN task : task[t].problem_code = code

\* C3: in the CodeChef stream, a fault at any statement of one problem's
\* sub-task gives that problem exactly the fallback record, with nothing of
\* what was extracted before the fault, and every problem without a fault the
\* record its own documents determine.
C3_FaultGivesFallback ==
    (op = "cc_stream" /\ task # NoTasks) =>
        \A i \in 1..Len(Produced) :
            LET r == Produced[i]
                t == TaskOf(r.problem_id)
            IN  /\ task[t].pc = "done"
                /\ IF task[t].faulted # "no"
                   THEN r = FallbackRecord(task[t].problem_code)
                   ELSE r = RecordFromDocs(task[t].problem_code, task[t].data, task[t].html)

\* A problem whose page fetch failed after its detail document was read has
\* its fallback record printed, next to a sibling's record with tests.
C3_Witness ==
    /\ op = "cc_stream" /\ task # NoTasks
    /\ \E i, j \in 1..Len(out) :
          /\ task[TaskOf(out[i].problem_id)].faulted = "page"
          /\ out[i] = FallbackRecord(out[i].problem_id)
          /\ task[TaskOf(out[j].problem_id)].faulted = "no"
          /\ out[j].tests # <<>>

\* C4: in the CodeChef listing and stream, at most CONNECTIONS sub-tasks are
\* between acquiring and releasing the semaphore, the page fetch of a
\* streaming sub-task included.
C4_AtMostEightInFlight ==
    op \in {"cc_list", "cc_stream"} => InFlight <= 8

\* All permits are out, one holder is in its page fetch, a sub-task queues.
C4_Witness ==
    /\ op = "cc_stream"
    /\ InFlight = CONNECTIONS
    /\ sem.waiters # <<>>
    /\ \E t \in DOMAIN task : task[t].pc = "page"

\* C5: a streaming operation that cannot enumerate its sub-tasks prints one
\* error record, no problem record, and ends.
CannotEnumerate ==
    \/ op = "cc_stream" /\ Ended /\ task = NoTasks
    \/ op = "cf_stream" /\ (pc = "raised" \/ (pc = "returned" /\ page = <<>>))
C5_OneErrorRecord ==
    CannotEnumerate => (Len(out) = 1 /\ IsErrorRecord(out[1]))

\* C6: the problem records of one stream have non-empty, pairwise different
\* problem ids.
C6_ProblemIdsUnique ==
    op \in {"cc_stream", "cf_stream"} =>
        \A i \in 1..Len(out) :
            IsProblemRecord(out[i]) =>
                /\ out[i].problem_id # <<>>
                /\ \A j \in 1..Len(out) :
                      (j # i /\ IsProblemRecord(out[j])) =>
                          out[j].problem_id # out[i].problem_id

\* C7: every object a stream prints has a problem_id and a combined object
\* with an input and an expected str.
C7_EveryObjectHasCombined ==
    op \in {"cc_stream", "cf_stream"} =>
        \A i \in 1..Len(out) :
            /\ "problem_id" \in DOMAIN out[i]
            /\ "combined" \in DOMAIN out[i]
            /\ DOMAIN out[i].combined = {"input", "expected"}
            /\ out[i].combined.input \in Seq(STRING)
            /\ out[i].combined.expected \in Seq(STRING)

\* C8: the CodeChef stream prints the records in the order the sub-tasks
\* finish, and a finished record is printed without waiting for a sub-task
\* that still runs.
C8_CompletionOrder ==
    (op = "cc_stream" /\ task # NoTasks) =>
        /\ Len(out) <= Len(completed)
        /\ \A i \in 1..Len(out) : out[i].problem_id = task[completed[i]].problem_code
        /\ (Len(out) < Len(completed) /\ pc = "fanout") => ENABLED PrintNext

\* The record of a sub-task submitted later is printed while a sub-task
\* submitted before it still holds its permit.
C8_Witness ==
    /\ op = "cc_stream" /\ task # NoTasks
    /\ \E a, b \in DOMAIN task :
          /\ b < a
          /\ Holding(b)
          /\ \E i \in 1..Len(out) : out[i].problem_id = task[a].problem_code

\* C9: once the CodeChef stream has enumerated its problems, it ends having
\* printed one record for each of them, no more, with every permit back.
OneRecordEach ==
    /\ Len(out) = Len(problems)
    /\ \A i \in 1..Len(problems) :
          Cardinality({j \in 1..Len(out) : out[j].problem_id = problems[i]}) = 1
C9_EndsWithOneRecordEach ==
    (pc = "fanout") ~> (pc = "returned" /\ OneRecordEach /\ sem = NewSemaphore)

\* The stream has ended, with sub-tasks that failed and sub-tasks that did
\* not, and with sub-tasks that had to queue for a permit.
C9_Witness ==
    /\ op = "cc_stream" /\ pc = "returned"
    /\ Len(problems) > CONNECTIONS
    /\ OneRecordEach /\ sem = NewSemaphore
    /\ \E t, u \in DOMAIN task : task[t].faulted # "no" /\ task[u].faulted = "no"

\* The blocks of a page that get a record, in document order
RECURSIVE LetteredBlocks(_)
LetteredBlocks(html) ==
    IF html = <<>> THEN <<>>
    ELSE (IF Letter(Head(html)) = <<>> THEN <<>> ELSE <<Head(html)>>)
            \o LetteredBlocks(Tail(html))

JustParsed == op = "cf_stream" /\ pc = "printing" /\ out = <<>>

\* The framing of the record b of a block with the raw cases raw: every test
\* is "1\n" and its raw input, combined.input begins with the count line.
Framed(b, raw) ==
    /\ Len(raw) >= 1
    /\ Len(b.tests) = Len(raw)
    /\ \A j \in 1..Len(raw) : b.tests[j].input = <<"1", NL>> \o raw[j].input
    /\ StartsWith(b.combined_input, StrOfNat(Len(raw)) \o <<NL>>)

\* C10 as stated: for every record with multi_test and k >= 1 cases, the
\* tests are framed as one case, combined.input begins with "k\n", and each
\* test's input differs from combined.input.
C10_FramingAlwaysDistinct ==
    JustParsed =>
        \A i \in 1..Len(blocks) :
            blocks[i].multi_test =>
                LET raw == ExtractSamples(LetteredBlocks(page)[i].sample_test).samples
                IN  /\ Framed(blocks[i], raw)
                    /\ \A j \in 1..Len(blocks[i].tests) :
                          blocks[i].tests[j].input # blocks[i].combined_input

\* C10 as amended: the same, with each test's input different from
\* combined.input when there are two cases or more, and equal to it when
\* there is one.
C10_FramingDistinctFromTwoCases ==
    JustParsed =>
        \A i \in 1..Len(blocks) :
            blocks[i].multi_test =>
                LET raw == ExtractSamples(LetteredBlocks(page)[i].sample_test).samples
                IN  /\ Framed(blocks[i], raw)
                    /\ Len(raw) >= 2 =>
                          \A j \in 1..Len(blocks[i].tests) :
                              blocks[i].tests[j].input # blocks[i].combined_input
                    /\ Len(raw) = 1 =>
                          blocks[i].tests[1].input = blocks[i].combined_input

\* A page was parsed into a record of three grouped cases.
C10_Witness ==
    /\ JustParsed
    /\ \E i \in 1..Len(blocks) : blocks[i].multi_test /\ Len(blocks[i].tests) = 3

\* The sample elements of a side without any line marker, the line markers of
\* a side in document order, and the group ids >= 1 a side carries
HasMarker(pre) == \E j \in 1..Len(pre) : pre[j].line
PlainCount(pres) == Cardinality({i \in 1..Len(pres) : ~HasMarker(pres[i])})
RECURSIVE Flat(_)
Flat(pres) == IF pres = <<>> THEN <<>> ELSE Head(pres) \o Flat(Tail(pres))
IsOfGroup(node, g) == node.line /\ node.gid = g
RECURSIVE MarkedTexts(_, _)
MarkedTexts(nodes, g) ==
    IF nodes = <<>> THEN <<>>
    ELSE (IF IsOfGroup(Head(nodes), g) THEN <<Head(nodes).text>> ELSE <<>>)
            \o MarkedTexts(Tail(nodes), g)
SideIds(pres) ==
    {Flat(pres)[j].gid : j \in {n \in 1..Len(Flat(pres)) :
                                  Flat(pres)[n].line /\ Flat(pres)[n].gid >= 1}}
CommonIds(st) == SideIds(st.input_pres) \cap SideIds(st.output_pres)
UngroupedPairs(st) ==
    IF PlainCount(st.input_pres) < PlainCount(st.output_pres)
    THEN PlainCount(st.input_pres) ELSE PlainCount(st.output_pres)
SectionOf(i) == LetteredBlocks(page)[i].sample_test

\* A section of ungrouped pairs and grouped samples: every line marker is the
\* count line (group 0) or belongs to a group present on both sides, and
\* where there are markers there is such a group.
PairsAndGroups(st) ==
    LET nodes == Flat(st.input_pres \o st.output_pres)
    IN  /\ st.hasSampleTest
        /\ \A j \in 1..Len(nodes) :
              nodes[j].line => nodes[j].gid \in CommonIds(st) \cup {0}
        /\ (\E j \in 1..Len(nodes) : nodes[j].line) => CommonIds(st) # {}

\* C11: a sample section of u ungrouped pairs and g grouped samples gives
\* u + g test cases, and every grouped sample is one of them, its input and
\* expected the newline-joined lines of its group (behind the one-case count
\* line when the record is framed).
C11_UngroupedPlusGrouped ==
    JustParsed =>
        \A i \in 1..Len(blocks) :
            LET st == SectionOf(i)
                cases == blocks[i].tests
            IN  PairsAndGroups(st) =>
                  /\ Len(cases) = UngroupedPairs(st) + Cardinality(CommonIds(st))
                  /\ \A g \in CommonIds(st) : \E j \in 1..Len(cases) :
                        LET lines == Join(MarkedTexts(Flat(st.input_pres), g), <<NL>>)
                        IN  /\ cases[j].input \in {lines, <<"1", NL>> \o lines}
                            /\ cases[j].expected =
                                  Join(MarkedTexts(Flat(st.output_pres), g), <<NL>>)

\* A grouped sample: a sample element with a line marker that carries a
\* numeric group id
HasGroupedSample(st) ==
    \E j \in 1..Len(Flat(st.input_pres \o st.output_pres)) :
        LET node == Flat(st.input_pres \o st.output_pres)[j]
        IN  node.line /\ node.gid # NoGid

\* C12: a parsed problem has multi_test exactly when its document holds a
\* grouped sample, also when the only group id is 0, when the ids of the two
\* sides are disjoint, and when one side only has markers.
C12_MultiTestIffGroupedSample ==
    JustParsed =>
        \A i \in 1..Len(blocks) :
            blocks[i].multi_test <=> HasGroupedSample(SectionOf(i))

\* The catalog entries whose code is START and digits, and the largest number
\* those digits form (0 when no entry matches)
Entries == catalog.future_contests \o catalog.past_contests
Matching ==
    {i \in 1..Len(Entries) :
        StartsWith(Entries[i], START) /\ DigitRun(Entries[i], Len(START) + 1) # <<>>}
Selected ==
    IF Matching = {} THEN 0
    ELSE SetMax({NatOfDigits(DigitRun(Entries[i], Len(START) + 1)) : i \in Matching})

Listing == op = "cc_list" /\ (pc = "fanout" \/ (pc = "returned" /\ ret.success))
NoStarters == op = "cc_list" /\ pc = "returned" /\ ret.error = "No Starters contests found"

\* The generations 1..Selected have one sub-task each, and once the listing
\* has returned each of them was fetched once.
OnePerGeneration ==
    /\ Len(task) = Selected
    /\ \A i \in 1..Len(task) : task[i].problem_code = ParentId(i)
    /\ \A i, j \in 1..Len(completed) : i # j => completed[i] # completed[j]
    /\ pc = "returned" => {completed[i] : i \in 1..Len(completed)} = 1..Selected

\* C13 as stated: the listing fetches the generations 1..m, m the largest
\* number after START in the fetched catalog, each once, and it fails exactly
\* when no code of the catalog is START and digits.
C13_FailsIffNoMatch ==
    /\ Listing => (Matching # {} /\ OnePerGeneration)
    /\ NoStarters => Matching = {}

\* C13 as amended: the same, with the failure exactly when m is 0, that is
\* when no code matches or every matching number is 0.
C13_FailsIffMaxZero ==
    /\ Listing => (Selected >= 1 /\ OnePerGeneration)
    /\ NoStarters => Selected = 0

\* A listing has returned for a catalog whose largest number stands in a code
\* with a letter behind it, next to a code with a smaller number.
C13_Witness ==
    /\ Listing /\ pc = "returned"
    /\ Len(Entries) = 2
    /\ Entries[1] = ParentId(1)
    /\ Entries[2] = ParentId(MaxGen) \o <<"A">>
    /\ Len(task) = MaxGen

\* C14: a Codeforces block without a time or memory limit is extracted as 0
\* and 0.0, and its printed record carries 1000 and 256.0 instead; no
\* printed record has timeout_ms = 0 or memory_mb = 0.
C14_DefaultsReplaceZero ==
    op = "cf_stream" =>
        \A i \in 1..Len(out) :
            LET b == LetteredBlocks(page)[i]
            IN  /\ ~b.hasTimeLimit =>
                      (ExtractLimits(b).timeout_ms = 0 /\ out[i].timeout_ms = 1000)
                /\ ~b.hasMemoryLimit =>
                      (ExtractLimits(b).memory_mb = 0 /\ out[i].memory_mb = 256000)
                /\ out[i].timeout_ms # 0
                /\ out[i].memory_mb # 0

\* C15: every synchronous blocking fetch call of either adapter runs on a
\* worker thread, never on the thread of the event loop.
C15_BlockingFetchesOffloaded ==
    \A c \in blocking : c.on = "thread"

\* A division number that is a decimal numeral
IsNumeric(s) == s # <<>> /\ \A i \in 1..Len(s) : s[i] \in DigitSet

\* The entry the listing is to hold for the division d of generation g
DivisionEntry(g, d) ==
    [id |-> d.contest_code,
     name |-> <<"S", "t", "a", "r", "t", "e", "r", "s", " ">> \o StrOfNat(g),
     display_name |-> <<"S", "t", "a", "r", "t", "e", "r", "s", " ">> \o StrOfNat(g)
                        \o <<" ", "(", "D", "i", "v", ".", " ">> \o d.div_number \o <<")">>]

Listed == {ret.contests[i] : i \in 1..Len(ret.contests)}

\* C16: a child division is in the returned contests exactly when it declares
\* a non-empty code and a numeric division number, and then with the display
\* name "Starters <generation> (Div. <number>)".
C16_ListedIffCodeAndNumber ==
    (op = "cc_list" /\ pc = "returned" /\ ret.success) =>
        \A g \in DOMAIN task : \A k \in 1..Len(task[g].children) :
            LET d == task[g].children[k]
                appears == \E c \in Listed : c.id = d.contest_code
            IN  /\ appears <=> (d.contest_code # <<>> /\ IsNumeric(d.div_number))
                /\ appears => DivisionEntry(g, d) \in Listed

\* The case of a record as _extract_samples returned it, without the
\* one-case count line a multi_test record puts before it
RawInput(b, j) ==
    IF b.multi_test THEN SubSeq(b.tests[j].input, 3, Len(b.tests[j].input))
    ELSE b.tests[j].input

\* C17: for a section with line markers, the cases are one per group id >= 1
\* present on both sides, in ascending id order, each the trimmed
\* newline-join of all the lines of its group over all elements of its side,
\* in document order.
C17_OneCasePerCommonId ==
    JustParsed =>
        \A i \in 1..Len(blocks) :
            LET st == SectionOf(i)
                b == blocks[i]
            IN  HasGroupedSample(st) =>
                  /\ Len(b.tests) = Cardinality(CommonIds(st))
                  /\ \A g \in CommonIds(st) :
                        LET j == Cardinality({h \in CommonIds(st) : h <= g})
                        IN  /\ RawInput(b, j) =
                                  Strip(Join(MarkedTexts(Flat(st.input_pres), g), <<NL>>))
                            /\ b.tests[j].expected =
                                  Strip(Join(MarkedTexts(Flat(st.output_pres), g), <<NL>>))

\* The problem ids a stream has printed, and the ids of a metadata envelope
StreamIds == {out[i].problem_id : i \in {j \in 1..Len(out) : IsProblemRecord(out[j])}}
SummaryIds(result) == {result.problems[i].id : i \in 1..Len(result.problems)}

\* The stream has ended on a document it was served
StreamedContest ==
    /\ op = "cc_stream" /\ pc = "returned"
    /\ out # <<ErrorRecord("Failed to fetch contest")>>
StreamedPage == op = "cf_stream" /\ pc = "returned"

\* C18: when scrape_contest_metadata succeeds on the document a stream was
\* served, the problem ids the stream has printed at its end are the ids of
\* the metadata's problems, whichever sub-tasks failed and in whatever order
\* they finished.
C18_StreamIdsAreMetadataIds ==
    /\ StreamedContest =>
          (CCMetadataResult("ok", contest).success =>
              StreamIds = SummaryIds(CCMetadataResult("ok", contest)))
    /\ StreamedPage =>
          (CFMetadataResult("ok", page).success =>
              StreamIds = SummaryIds(CFMetadataResult("ok", page)))

\* A CodeChef stream has ended for a contest with a 'main' and a 'practice'
\* problem, the sub-task of the 'main' problem having failed.
C18_Witness ==
    /\ StreamedContest
    /\ \E i, j \in 1..Len(contest.problems) :
          /\ contest.problems[i].category_name = "main"
          /\ contest.problems[j].category_name = "practice"
    /\ StreamIds # {}
    /\ \E t \in DOMAIN task : task[t].faulted # "no"

====
